---- MODULE Spec2Model ----
(***************************************************************************)
(* Model of the histomigrate orchestration engine: the public operations   *)
(* (Up, Down, Steps, Force, DoMigration, UndoMigration), the queueing      *)
(* producers of migrate_extended.go, the consumer loop and the dirty-state *)
(* executor handleSingleMigration, over the Extended driver of             *)
(* database/postgres/postgres_extended.go.                                 *)
(***************************************************************************)
EXTENDS Integers, Sequences, FiniteSets, TLC

\* ------------------------------------------------------------------ bounds
MaxVersion == 3
MaxSteps == 2
PrefetchMigrations == 1

\* --------------------------------------------------------------- constants
NoVersion == -1
Unlimited == -1

Versions == 1..MaxVersion

VARIABLES
    isExtended,   \* the backend satisfies database.ExtendedDriver
    depth,        \* m.PrefetchMigrations, the capacity the channel ret is made with
    rows,         \* Extended history table: version -> "absent" | "clean" | "dirty"
    added,        \* the versions that have a row, in the order the rows were inserted
    ptr,          \* Basic pointer: [version, dirty]
    src,          \* versions the source driver holds scripts for
    stopped,      \* the cooperative stop flag
    lock,         \* the orchestrator's lock is held
    waiting,      \* some caller has invoked an operation and waits in lock()
    holders,      \* number of callers between lock() and unlockErr
    op,           \* the operation in progress: [kind, limit, version, ctx]
    cpc,          \* position of the caller / consumer loop
    cur,          \* the record the executor is working on
    res,          \* the operation's result: [tag, version]
    fail,         \* the executor step or pipeline stage that failed in this operation
    ppc,          \* position of the producer goroutine
    pend,         \* the value the producer is about to send
    prod,         \* producer locals: [applied, tv, cnt, i]
    ch,           \* the channel ret: values sent and not yet received
    sent,         \* history: every value the producer has sent on ret in this operation
    spawned,      \* records whose Buffer goroutine runs
    buffered,     \* records whose content is fully buffered
    ran,          \* history: versions whose script was handed to Run in this operation
    chain,        \* history: what the immediately preceding operations were
    pendingDirty  \* history: version a bulk operation's script failed on, until Force

vars == <<isExtended, depth, rows, added, ptr, src, stopped, lock, waiting, holders, op, cpc,
          cur, res, fail, ppc, pend, prod, ch, sent, spawned, buffered, ran, chain,
          pendingDirty>>

backend == <<rows, added, ptr>>
callers == <<waiting, holders>>
consumer == <<cpc, cur, res, fail>>
producer == <<ppc, pend, prod>>
tasks == <<spawned, buffered>>
history == <<chain, pendingDirty>>

\* ------------------------------------------------------------------ values
NoRec == [type |-> "none", version |-> 0, target |-> 0, up |-> FALSE]
NoOp == [kind |-> "none", limit |-> 0, version |-> 0, ctx |-> "none", ctxv |-> 0]
NoRes == [tag |-> "none", version |-> 0]
\* saw: the producer found the stop flag set when it polled it
NoProd == [applied |-> <<>>, tv |-> 0, cnt |-> 0, i |-> 0, saw |-> FALSE]
NoChain == [tag |-> "none", v |-> 0]

ErrNoChange == [type |-> "NoChange", version |-> 0, target |-> 0, up |-> FALSE]
ErrSource == [type |-> "err", version |-> 0, target |-> 0, up |-> FALSE]

Min(S) == CHOOSE x \in S : \A y \in S : x <= y
Max(S) == CHOOSE x \in S : \A y \in S : x >= y

RECURSIVE SortDesc(_)
SortDesc(S) == IF S = {} THEN <<>> ELSE <<Max(S)>> \o SortDesc(S \ {Max(S)})

RECURSIVE SortAsc(_)
SortAsc(S) == IF S = {} THEN <<>> ELSE <<Min(S)>> \o SortAsc(S \ {Min(S)})

Range(s) == {s[k] : k \in 1..Len(s)}

\* --------------------------------------------------- source sequence contract
SourceFirst(s) == IF s = {} THEN NoVersion ELSE Min(s)
SourceNext(s, v) == IF {x \in s : x > v} = {} THEN NoVersion ELSE Min({x \in s : x > v})
SourcePrev(s, v) == IF {x \in s : x < v} = {} THEN NoVersion ELSE Max({x \in s : x < v})
versionExists(s, v) == v \in s

\* a record has content when the source holds a script for its version
HasBody(s, migr) == migr.version \in s

\* newMigration: a record for version whose direction flag the queueing code sets

newMigration(version, targetVersion, isUp) ==
    [type |-> "migr", version |-> version, target |-> targetVersion, up |-> isUp]

\* ------------------------------------------------------- Extended driver
\* a faulty variant of GetAllAppliedMigrations: the query orders ascending
GetAllAppliedMigrationsAsc(r) == SortAsc({v \in Versions : r[v] # "absent"})

\* SELECT migration_timestamp ... ORDER BY migration_timestamp DESC
GetAllAppliedMigrations(r) == SortDesc({v \in Versions : r[v] # "absent"})
\* a faulty variant of IsMigrationApplied: the query counts only rows with dirty = false
IsMigrationAppliedCleanOnly(r, v) == r[v] = "clean"

\* a faulty variant of IsMigrationApplied: every version up to the highest applied one
\* counts as applied, as with a single current-version pointer
IsMigrationAppliedBelowHead(r, v) == \E w \in Versions : w >= v /\ r[w] # "absent"

IsMigrationApplied(r, v) == r[v] # "absent"
DirtyRows(r) == {v \in Versions : r[v] = "dirty"}
\* a faulty variant of AddDirtyMigration: the new row is inserted with dirty = false
AddCleanMigration(r, v) == [r EXCEPT ![v] = "clean"]

AddDirtyMigration(r, v) == [r EXCEPT ![v] = "dirty"]
\* a faulty variant of UpdateMigrationDirtyFlag: the UPDATE without its WHERE clause
UpdateEveryRow(r, v, dirty) ==
    [w \in Versions |->
        IF r[w] # "absent" THEN (IF dirty THEN "dirty" ELSE "clean") ELSE r[w]]

UpdateMigrationDirtyFlag(r, v, dirty) ==
    [w \in Versions |->
        IF w = v /\ r[w] # "absent" THEN (IF dirty THEN "dirty" ELSE "clean") ELSE r[w]]
\* a faulty variant of RemoveMigration: the DELETE takes every row from v upwards
RemoveMigrationAndAbove(r, v) == [w \in Versions |-> IF w >= v THEN "absent" ELSE r[w]]

\* a faulty variant of RemoveMigration: the DELETE's transaction is never committed
RemoveMigrationNoCommit(r, v) == r

RemoveMigration(r, v) == [r EXCEPT ![v] = "absent"]

\* ------------------------------------------------------- Basic driver
SetVersion(version, dirty) == [version |-> version, dirty |-> dirty]


\* ------------------------------------------------------------------ Init
Init ==
    /\ isExtended \in BOOLEAN
    /\ depth = PrefetchMigrations
    /\ rows = [v \in Versions |-> "absent"]
    /\ added = <<>>
    /\ ptr = SetVersion(NoVersion, FALSE)
    /\ src = {}
    /\ stopped = FALSE
    /\ lock = FALSE
    /\ waiting = FALSE
    /\ holders = 0
    /\ op = NoOp
    /\ cpc = "idle"
    /\ cur = NoRec
    /\ res = NoRes
    /\ fail = "none"
    /\ ppc = "none"
    /\ pend = NoRec
    /\ prod = NoProd
    /\ ch = <<>>
    /\ sent = <<>>
    /\ spawned = {}
    /\ buffered = {}
    /\ ran = <<>>
    /\ chain = NoChain
    /\ pendingDirty = 0

\* --------------------------------------------------------- environment
\* a script pair for version v is added to the source
AddScript(v) ==
    /\ cpc = "idle"
    /\ v \notin src
    /\ src' = src \cup {v}
    /\ chain' = NoChain
    /\ UNCHANGED <<isExtended, depth, backend, stopped, lock, callers, op, consumer, producer, ch, sent,
                   tasks, ran, pendingDirty>>

\* the caller signals GracefulStop; stop() latches it
SetStop ==
    /\ ~stopped
    /\ stopped' = TRUE
    /\ UNCHANGED <<isExtended, depth, backend, src, lock, callers, op, consumer, producer, ch, sent,
                   tasks, ran, history>>

\* a caller invokes a public operation and reaches m.lock(); any number of callers
\* may do so, at any moment
Call ==
    /\ ~waiting
    /\ waiting' = TRUE
    /\ UNCHANGED <<isExtended, depth, backend, src, stopped, lock, holders, op, consumer,
                   producer, ch, sent, tasks, ran, history>>

\* ------------------------------------------------------ operation entry
\* a faulty variant of CanLock: lock() lets the caller in whether or not the lock is held
CanLockAlways(held) == TRUE

\* m.lock() lets a caller in only while nobody holds the lock; other callers wait
CanLock(held) == ~held

\* one waiting caller gets the lock; others may remain waiting. A Steps(0) call, which
\* takes no lock, is shown on its own: no other call starts before it returned.
Lock ==
    /\ waiting
    /\ CanLock(lock)
    /\ op.kind # "steps0"
    /\ waiting' \in BOOLEAN

\* a faulty variant of AsExtendedDriver: the capability test always succeeds
AsExtendedDriverUnchecked(ext) == TRUE

\* ed, isExtended := m.databaseDrv.(database.ExtendedDriver)
AsExtendedDriver(ext) == ext

Returns(tag, version, why) ==
    /\ res' = [tag |-> tag, version |-> version]
    /\ fail' = why
    /\ cpc' = "done"
    /\ cur' = cur
    /\ UNCHANGED <<producer>>

Spawns(pc, applied) ==
    /\ cpc' = "recv"
    /\ ppc' = pc
    /\ prod' = [NoProd EXCEPT !.applied = applied]
    /\ UNCHANGED <<cur, res, fail, pend>>

\* Up, Down and Steps(n # 0) on an Extended backend: lock, refuse when dirty, read the
\* applied list once, start the producer, then consume. Either driver query may fail.
StartBulk(kind, limit) ==
    /\ Lock
    /\ isExtended
    /\ lock' = TRUE
    /\ holders' = holders + 1
    /\ op' = [kind |-> kind, limit |-> limit, version |-> 0,
              ctx |-> chain.tag, ctxv |-> chain.v]
    /\ chain' = NoChain
    /\ \/ \E d \in DirtyRows(rows) : Returns("Dirty", d, "none")
       \/ /\ DirtyRows(rows) = {}
          /\ Spawns(IF kind = "up" THEN "first" ELSE "dstart",
                    GetAllAppliedMigrations(rows))
       \/ Returns("err", 0, "query")
    /\ UNCHANGED <<isExtended, depth, backend, src, stopped, ch, sent, tasks, ran, pendingDirty>>

\* the applied collection of a Basic backend: the version of the single pointer
AppliedFromPointer(p) == IF p.version = NoVersion THEN <<>> ELSE <<p.version>>

\* Up, Down and Steps(n # 0) on a Basic backend: lock, refuse when the pointer is dirty,
\* start the producer on the pointer, then consume. Version() may fail.
StartBulkBasic(kind, limit) ==
    /\ Lock
    /\ ~isExtended
    /\ lock' = TRUE
    /\ holders' = holders + 1
    /\ op' = [kind |-> kind, limit |-> limit, version |-> 0,
              ctx |-> chain.tag, ctxv |-> chain.v]
    /\ chain' = NoChain
    /\ \/ ptr.dirty /\ Returns("Dirty", ptr.version, "none")
       \/ /\ ~ptr.dirty
          /\ Spawns(IF kind = "upBasic" THEN "first" ELSE "dstart",
                    AppliedFromPointer(ptr))
       \/ Returns("err", 0, "query")
    /\ UNCHANGED <<isExtended, depth, backend, src, stopped, ch, sent, tasks, ran, pendingDirty>>

Up == StartBulk("up", Unlimited) \/ StartBulkBasic("upBasic", Unlimited)

Down == StartBulk("down", Unlimited) \/ StartBulkBasic("downBasic", Unlimited)

Steps(n) ==
    IF n = 0
    THEN /\ cpc = "idle"
         /\ ~lock
         /\ op' = [NoOp EXCEPT !.kind = "steps0"]
         /\ chain' = NoChain
         /\ Returns("nil", 0, "none")
         /\ UNCHANGED <<isExtended, depth, backend, src, stopped, lock, callers, ch, sent, tasks, ran,
                        pendingDirty>>
    ELSE IF n > 0
         THEN StartBulk("up", n) \/ StartBulkBasic("upBasic", n)
         ELSE StartBulk("down", -n) \/ StartBulkBasic("downBasic", -n)

\* Force(version): clear version's dirty marker without running anything
Force(v) ==
    /\ Lock
    /\ holders' = holders
    /\ lock' = lock
    /\ added' = added
    /\ IF isExtended
       THEN rows' = UpdateMigrationDirtyFlag(rows, v, FALSE) /\ ptr' = ptr
       ELSE ptr' = SetVersion(v, FALSE) /\ rows' = rows
    /\ chain' = IF chain.tag = "upFail" /\ chain.v = v
                THEN [tag |-> "forced", v |-> v] ELSE NoChain
    /\ pendingDirty' = 0
    /\ UNCHANGED <<isExtended, depth, src, stopped, op, consumer, producer, ch, sent, tasks, ran>>

StartSingle(kind, version, wanted, pc) ==
    /\ Lock
    /\ lock' = TRUE
    /\ holders' = holders + 1
    /\ op' = [kind |-> kind, limit |-> 0, version |-> version,
              ctx |-> chain.tag, ctxv |-> chain.v]
    /\ chain' = NoChain
    /\ IF AsExtendedDriver(isExtended)
       THEN \/ Returns("err", 0, "query")
            \/ /\ IsMigrationApplied(rows, version) = wanted
               /\ Returns("NoChange", 0, "none")
            \/ /\ IsMigrationApplied(rows, version) # wanted
               /\ Spawns(pc, <<>>)
       ELSE Returns("err", 0, "capability")
    /\ UNCHANGED <<isExtended, depth, backend, src, stopped, ch, sent, tasks, ran, pendingDirty>>

DoMigration(version) == StartSingle("do", version, TRUE, "usingle")

UndoMigration(version) == StartSingle("undo", version, FALSE, "dsingle")


\* ------------------------------------------------------------ producers
\* what the producer leaves untouched
ProducerFrame ==
    UNCHANGED <<isExtended, depth, backend, src, stopped, lock, callers, op, consumer, ch, sent, buffered,
                ran, history>>

\* a faulty variant of Finish: ErrNoChange is sent whatever was queued
FinishAlwaysNoChange(cnt) == ppc' = "sendlast" /\ pend' = ErrNoChange

\* a faulty variant of Finish: the channel is closed without the ErrNoChange check
FinishSilently(cnt) == ppc' = "closed" /\ pend' = NoRec

\* a faulty variant of Finish: the producer returns without the deferred close(ret)
FinishWithoutClose(cnt) ==
    IF cnt = 0
    THEN ppc' = "sendlast" /\ pend' = ErrNoChange
    ELSE ppc' = "returned" /\ pend' = NoRec

\* the loop was left: ErrNoChange when nothing was queued, then the deferred close
Finish(cnt) ==
    IF cnt = 0
    THEN ppc' = "sendlast" /\ pend' = ErrNoChange
    ELSE ppc' = "closed" /\ pend' = NoRec

\* a faulty variant of SendErr: the error is sent but the producer does not return
SendErrNoReturn(e) == ppc' = "send" /\ pend' = e

\* ret <- err; return
SendErr(e) == ppc' = "sendlast" /\ pend' = e

\* a faulty variant of Room: the channel takes any number of values
RoomUnbounded == TRUE

\* a send on ret can complete: buffer space, or a waiting receiver when unbuffered
Room ==
    \/ Len(ch) < depth
    \/ depth = 0 /\ ch = <<>> /\ cpc = "recv"

\* a faulty variant of appliedSet: only the list's head (the highest version) is kept,
\* as a single current-version pointer would
appliedSetHeadOnly(appliedMigrs) ==
    IF appliedMigrs = <<>> THEN {} ELSE {appliedMigrs[1]}

\* queueUpMigrations builds a lookup set from the applied list
appliedSet(appliedMigrs) == Range(appliedMigrs)

\* a faulty variant of WithinLimit: the comparison is off by one
WithinLimitInclusive(limit, appliedCount) == limit = Unlimited \/ appliedCount <= limit

\* the loop condition of queueUpMigrations: limit == -1 || appliedCount < limit
WithinLimit(limit, appliedCount) == limit = Unlimited \/ appliedCount < limit

\* a faulty variant of StopObserved: the producer never looks at the stop flag
StopIgnored(flag) == FALSE

\* if m.stop() { break } in the loops, if m.stop() { return } in the single producers
StopObserved(flag) == flag

\* a faulty variant of LimitReached: the comparison is off by one
LimitReachedLate(limit, appliedCount) == limit # Unlimited /\ appliedCount > limit

\* queueDownMigrations: if limit != -1 && appliedCount >= limit { break }
LimitReached(limit, appliedCount) == limit # Unlimited /\ appliedCount >= limit

\* queueUpMigrations, up to the loop
queueUpFirst ==
    /\ ppc = "first"
    /\ \/ /\ SourceFirst(src) = NoVersion
          /\ SendErr(ErrNoChange)
          /\ prod' = prod
       \/ SendErr(ErrSource) /\ prod' = prod
       \/ /\ SourceFirst(src) # NoVersion
          /\ ppc' = "loop"
          /\ pend' = pend
          /\ prod' = [prod EXCEPT !.tv = SourceFirst(src)]
    /\ spawned' = spawned
    /\ ProducerFrame

\* queueUpMigrations, one iteration of the loop up to its send
queueUpLoop ==
    /\ ppc = "loop"
    /\ op.kind \in {"up", "upBasic"}
    /\ IF ~WithinLimit(op.limit, prod.cnt)
       THEN Finish(prod.cnt) /\ prod' = prod
       ELSE IF StopObserved(stopped)
       THEN Finish(prod.cnt) /\ prod' = [prod EXCEPT !.saw = TRUE]
       ELSE IF prod.tv \in appliedSet(prod.applied)
            THEN \/ /\ SourceNext(src, prod.tv) = NoVersion
                    /\ Finish(prod.cnt)
                    /\ prod' = prod
                 \/ SendErr(ErrSource) /\ prod' = prod
                 \/ /\ SourceNext(src, prod.tv) # NoVersion
                    /\ ppc' = "loop"
                    /\ pend' = pend
                    /\ prod' = [prod EXCEPT !.tv = SourceNext(src, prod.tv)]
            ELSE /\ prod' = [prod EXCEPT !.cnt = @ + 1]
                 /\ \/ SendErr(ErrSource)
                    \/ /\ ppc' = "send"
                       /\ pend' = newMigration(prod.tv, prod.tv, TRUE)
    /\ spawned' = spawned
    /\ ProducerFrame

\* a faulty variant of queueUpNext: the loop goes on without advancing the source
queueUpNextNoAdvance ==
    /\ ppc = "sent"
    /\ op.kind \in {"up", "upBasic"}
    /\ spawned' = spawned \cup {pend.version}
    /\ \/ /\ SourceNext(src, prod.tv) = NoVersion
          /\ Finish(prod.cnt)
          /\ prod' = prod
       \/ SendErr(ErrSource) /\ prod' = prod
       \/ /\ SourceNext(src, prod.tv) # NoVersion
          /\ ppc' = "loop"
          /\ pend' = NoRec
          /\ prod' = prod
    /\ ProducerFrame

\* queueUpMigrations, after the send: start the Buffer goroutine, advance the source
queueUpNext ==
    /\ ppc = "sent"
    /\ op.kind \in {"up", "upBasic"}
    /\ spawned' = spawned \cup {pend.version}
    /\ \/ /\ SourceNext(src, prod.tv) = NoVersion
          /\ Finish(prod.cnt)
          /\ prod' = prod
       \/ SendErr(ErrSource) /\ prod' = prod
       \/ /\ SourceNext(src, prod.tv) # NoVersion
          /\ ppc' = "loop"
          /\ pend' = NoRec
          /\ prod' = [prod EXCEPT !.tv = SourceNext(src, prod.tv)]
    /\ ProducerFrame

\* queueDownMigrations, up to the loop
queueDownFirst ==
    /\ ppc = "dstart"
    /\ IF Len(prod.applied) = 0 \/ op.limit = 0
       THEN SendErr(ErrNoChange) /\ prod' = prod
       ELSE ppc' = "loop" /\ pend' = pend /\ prod' = [prod EXCEPT !.i = 1]
    /\ spawned' = spawned
    /\ ProducerFrame

\* a faulty variant of queueDownLoop: the target is the version's predecessor in the
\* source instead of the next element of the applied list
queueDownLoopSourcePrev ==
    /\ ppc = "loop"
    /\ op.kind \in {"down", "downBasic"}
    /\ IF prod.i > Len(prod.applied)
       THEN Finish(prod.cnt) /\ prod' = prod
       ELSE IF StopObserved(stopped)
       THEN Finish(prod.cnt) /\ prod' = [prod EXCEPT !.saw = TRUE]
       ELSE IF LimitReached(op.limit, prod.cnt)
       THEN Finish(prod.cnt) /\ prod' = prod
       ELSE /\ prod' = [prod EXCEPT !.cnt = @ + 1]
            /\ \/ SendErr(ErrSource)
               \/ /\ ppc' = "send"
                  /\ pend' = newMigration(prod.applied[prod.i],
                                SourcePrev(src, prod.applied[prod.i]), FALSE)
    /\ spawned' = spawned
    /\ ProducerFrame

\* queueDownMigrations, one iteration of the loop up to its send
queueDownLoop ==
    /\ ppc = "loop"
    /\ op.kind \in {"down", "downBasic"}
    /\ IF prod.i > Len(prod.applied)
       THEN Finish(prod.cnt) /\ prod' = prod
       ELSE IF StopObserved(stopped)
       THEN Finish(prod.cnt) /\ prod' = [prod EXCEPT !.saw = TRUE]
       ELSE IF LimitReached(op.limit, prod.cnt)
       THEN Finish(prod.cnt) /\ prod' = prod
       ELSE /\ prod' = [prod EXCEPT !.cnt = @ + 1]
            /\ \/ SendErr(ErrSource)
               \/ /\ ppc' = "send"
                  /\ pend' = newMigration(prod.applied[prod.i],
                                IF prod.i = Len(prod.applied)
                                THEN NoVersion ELSE prod.applied[prod.i + 1],
                                FALSE)
    /\ spawned' = spawned
    /\ ProducerFrame

\* queueDownMigrations, after the send: start the Buffer goroutine, i++
queueDownNext ==
    /\ ppc = "sent"
    /\ op.kind \in {"down", "downBasic"}
    /\ spawned' = spawned \cup {pend.version}
    /\ prod' = [prod EXCEPT !.i = @ + 1]
    /\ ppc' = "loop"
    /\ pend' = NoRec
    /\ ProducerFrame

\* a faulty variant of queueUpSingleMigration: the version is not looked up in the source
queueUpSingleMigrationUnchecked ==
    /\ ppc = "usingle"
    /\ IF StopObserved(stopped)
       THEN ppc' = "closed" /\ pend' = NoRec /\ prod' = [prod EXCEPT !.saw = TRUE]
       ELSE /\ prod' = prod
            /\ \/ SendErr(ErrSource)
               \/ /\ ppc' = "send"
                  /\ pend' = newMigration(op.version, op.version, TRUE)
    /\ spawned' = spawned
    /\ ProducerFrame

\* queueUpSingleMigration up to its send
queueUpSingleMigration ==
    /\ ppc = "usingle"
    /\ IF ~versionExists(src, op.version)
       THEN SendErr(ErrSource) /\ prod' = prod
       ELSE IF StopObserved(stopped)
            THEN ppc' = "closed" /\ pend' = NoRec /\ prod' = [prod EXCEPT !.saw = TRUE]
            ELSE /\ prod' = prod
                 /\ \/ SendErr(ErrSource)
                    \/ /\ ppc' = "send"
                       /\ pend' = newMigration(op.version, op.version, TRUE)
    /\ spawned' = spawned
    /\ ProducerFrame

\* queueDownSingleMigration up to its send
queueDownSingleMigration ==
    /\ ppc = "dsingle"
    /\ IF ~versionExists(src, op.version)
       THEN SendErr(ErrSource) /\ prod' = prod
       ELSE IF StopObserved(stopped)
            THEN ppc' = "closed" /\ pend' = NoRec /\ prod' = [prod EXCEPT !.saw = TRUE]
            ELSE /\ prod' = prod
                 /\ \/ SendErr(ErrSource)
                    \/ /\ ppc' = "send"
                       /\ pend' = newMigration(op.version, SourcePrev(src, op.version), FALSE)
    /\ spawned' = spawned
    /\ ProducerFrame

\* the single-version producers after their send: start the Buffer goroutine, return
queueSingleNext ==
    /\ ppc = "sent"
    /\ op.kind \in {"do", "undo"}
    /\ spawned' = spawned \cup {pend.version}
    /\ prod' = prod
    /\ ppc' = "closed"
    /\ pend' = NoRec
    /\ ProducerFrame

\* ret <- migr
Send ==
    /\ ppc = "send"
    /\ Room
    /\ ch' = Append(ch, pend)
    /\ sent' = Append(sent, pend)
    /\ ppc' = "sent"
    /\ UNCHANGED <<isExtended, depth, backend, src, stopped, lock, callers, op, consumer, pend, prod,
                   tasks, ran, history>>

\* ret <- err (or ErrNoChange), return, deferred close(ret)
SendLast ==
    /\ ppc = "sendlast"
    /\ Room
    /\ ch' = Append(ch, pend)
    /\ sent' = Append(sent, pend)
    /\ ppc' = "closed"
    /\ pend' = NoRec
    /\ UNCHANGED <<isExtended, depth, backend, src, stopped, lock, callers, op, consumer, prod,
                   tasks, ran, history>>

\* migr.Buffer() of one record completes
Buffer(v) ==
    /\ v \in spawned
    /\ spawned' = spawned \ {v}
    /\ buffered' = buffered \cup {v}
    /\ UNCHANGED <<isExtended, depth, backend, src, stopped, lock, callers, op, consumer, producer, ch, sent,
                   ran, history>>


\* ------------------------------------------------- consumer and executor
\* Every driver call of the executor, and the script itself, may fail: the outcome is
\* chosen at the call.
ConsumerFrame ==
    UNCHANGED <<isExtended, depth, src, stopped, lock, callers, op, producer, tasks, history>>

\* runMigrations: take the next value from ret
Receive ==
    /\ cpc = "recv"
    /\ \/ /\ ch # <<>>
          /\ ch' = Tail(ch)
          /\ \/ /\ Head(ch).type = "migr"
                /\ cur' = Head(ch)
                /\ cpc' = "dirty"
                /\ UNCHANGED <<res, fail>>
             \/ /\ Head(ch).type = "NoChange"
                /\ res' = [tag |-> "NoChange", version |-> 0]
                /\ cpc' = "done"
                /\ UNCHANGED <<cur, fail>>
             \/ /\ Head(ch).type = "err"
                /\ res' = [tag |-> "err", version |-> 0]
                /\ fail' = "source"
                /\ cpc' = "done"
                /\ cur' = cur
       \/ /\ ch = <<>>
          /\ ppc = "closed"
          /\ res' = [tag |-> "nil", version |-> 0]
          /\ cpc' = "done"
          /\ UNCHANGED <<ch, cur, fail>>
    /\ UNCHANGED <<backend, sent, ran>>
    /\ ConsumerFrame

\* the executor gives up: the wrapped error is the operation's result
Fails(step) ==
    /\ res' = [tag |-> "err", version |-> cur.version]
    /\ fail' = step
    /\ cpc' = "done"

\* a faulty variant of MarkDirty: the Down branch's call is used for Up records too
MarkDirtyUpdateOnly(r, migr) == UpdateMigrationDirtyFlag(r, migr.version, TRUE)

\* the dirty marker handleSingleMigration writes before running the script
MarkDirty(r, migr) ==
    IF migr.up
    THEN AddDirtyMigration(r, migr.version)
    ELSE UpdateMigrationDirtyFlag(r, migr.version, TRUE)

\* a faulty variant of MarkClean: the Up and Down branches swapped
MarkCleanSwapped(r, migr) ==
    IF migr.up
    THEN RemoveMigration(r, migr.version)
    ELSE UpdateMigrationDirtyFlag(r, migr.version, FALSE)

\* what handleSingleMigration writes after the script ran
MarkClean(r, migr) ==
    IF migr.up
    THEN UpdateMigrationDirtyFlag(r, migr.version, FALSE)
    ELSE RemoveMigration(r, migr.version)

\* the INSERT of AddDirtyMigration puts a new row after the existing ones
Inserted(a, migr) ==
    IF migr.up /\ migr.version \notin Range(a) THEN Append(a, migr.version) ELSE a

\* the DELETE of RemoveMigration takes the row out
Deleted(a, migr) ==
    IF migr.up THEN a ELSE SelectSeq(a, LAMBDA x : x # migr.version)

\* a faulty variant of handleMarkDirty: the Basic pointer is set to the record's own
\* version instead of its target version
handleMarkDirtyOwnVersion ==
    /\ cpc = "dirty"
    /\ \/ /\ IF isExtended
             THEN /\ rows' = MarkDirty(rows, cur)
                  /\ added' = Inserted(added, cur)
                  /\ ptr' = ptr
             ELSE /\ ptr' = SetVersion(cur.version, TRUE)
                  /\ UNCHANGED <<rows, added>>
          /\ cpc' = "run"
          /\ UNCHANGED <<res, fail>>
       \/ Fails("dirty") /\ UNCHANGED backend
    /\ UNCHANGED <<cur, ch, sent, ran>>
    /\ ConsumerFrame

\* handleSingleMigration, step 1: mark dirty
handleMarkDirty ==
    /\ cpc = "dirty"
    /\ \/ /\ IF isExtended
             THEN /\ rows' = MarkDirty(rows, cur)
                  /\ added' = Inserted(added, cur)
                  /\ ptr' = ptr
             ELSE /\ ptr' = SetVersion(cur.target, TRUE)
                  /\ UNCHANGED <<rows, added>>
          /\ cpc' = "run"
          /\ UNCHANGED <<res, fail>>
       \/ Fails("dirty") /\ UNCHANGED backend
    /\ UNCHANGED <<cur, ch, sent, ran>>
    /\ ConsumerFrame

\* a faulty variant of handleRun: the executor polls the stop flag before running the
\* script and returns nil when it is set
handleRunUnlessStopped ==
    /\ cpc = "run"
    /\ cur.version \in buffered
    /\ IF stopped
       THEN /\ res' = [tag |-> "nil", version |-> 0]
            /\ cpc' = "done"
            /\ UNCHANGED <<ran, fail>>
       ELSE /\ ran' = Append(ran, cur.version)
            /\ \/ cpc' = "clean" /\ UNCHANGED <<res, fail>>
               \/ Fails("run")
    /\ UNCHANGED <<backend, cur, ch, sent>>
    /\ ConsumerFrame

\* a faulty variant of handleRun: the script is run without its content having been
\* read from the source
handleRunUnbuffered ==
    /\ cpc = "run"
    /\ IF HasBody(src, cur)
       THEN /\ ran' = Append(ran, cur.version)
            /\ \/ cpc' = "clean" /\ UNCHANGED <<res, fail>>
               \/ Fails("run")
       ELSE /\ ran' = ran
            /\ cpc' = "clean"
            /\ UNCHANGED <<res, fail>>
    /\ UNCHANGED <<backend, cur, ch, sent>>
    /\ ConsumerFrame

\* handleSingleMigration, step 2: if migr.Body != nil, Run reads the buffered body to
\* its end; a record without content goes straight to step 3
handleRun ==
    /\ cpc = "run"
    /\ cur.version \in buffered
    /\ IF HasBody(src, cur)
       THEN /\ ran' = Append(ran, cur.version)
            /\ \/ cpc' = "clean" /\ UNCHANGED <<res, fail>>
               \/ Fails("run")
       ELSE /\ ran' = ran
            /\ cpc' = "clean"
            /\ UNCHANGED <<res, fail>>
    /\ UNCHANGED <<backend, cur, ch, sent>>
    /\ ConsumerFrame

\* a faulty variant of handleMarkClean: when the step fails the executor undoes the
\* marker it wrote in step 1
handleMarkCleanRollback ==
    /\ cpc = "clean"
    /\ \/ /\ IF isExtended
             THEN /\ rows' = MarkClean(rows, cur)
                  /\ added' = Deleted(added, cur)
                  /\ ptr' = ptr
             ELSE /\ ptr' = SetVersion(cur.target, FALSE)
                  /\ UNCHANGED <<rows, added>>
          /\ cpc' = "recv"
          /\ cur' = NoRec
          /\ UNCHANGED <<res, fail>>
       \/ /\ Fails("clean")
          /\ rows' = [rows EXCEPT ![cur.version] = IF cur.up THEN "absent" ELSE "clean"]
          /\ ptr' = SetVersion(cur.target, FALSE)
          /\ UNCHANGED <<added, cur>>
    /\ UNCHANGED <<ch, sent, ran>>
    /\ ConsumerFrame

\* handleSingleMigration, step 3: mark clean, or remove the row
handleMarkClean ==
    /\ cpc = "clean"
    /\ \/ /\ IF isExtended
             THEN /\ rows' = MarkClean(rows, cur)
                  /\ added' = Deleted(added, cur)
                  /\ ptr' = ptr
             ELSE /\ ptr' = SetVersion(cur.target, FALSE)
                  /\ UNCHANGED <<rows, added>>
          /\ cpc' = "recv"
          /\ cur' = NoRec
          /\ UNCHANGED <<res, fail>>
       \/ Fails("clean") /\ UNCHANGED <<backend, cur>>
    /\ UNCHANGED <<ch, sent, ran>>
    /\ ConsumerFrame

\* the producer can take no further step: it returned, or it waits in a send that
\* nobody will receive. The steps an abandoned producer could still take touch only
\* its own channel and locals, so the caller's return is modelled once it is quiet.
ProducerQuiet ==
    \/ ppc \in {"none", "closed"}
    \/ ppc \in {"send", "sendlast"} /\ ~Room

IsUp == op.kind = "up" /\ op.limit = Unlimited

\* a faulty variant of ExitUnlocks: the capability error is returned bare
ExitUnlocksButCapability(why) == why # "capability"

\* every return statement after lock() passes its result through m.unlockErr
ExitUnlocks(why) == TRUE

\* unlockErr and return to the caller
Return ==
    /\ cpc = "done"
    /\ ProducerQuiet
    /\ lock' = IF op.kind # "steps0" /\ ExitUnlocks(fail) THEN FALSE ELSE lock
    /\ holders' = IF op.kind # "steps0" THEN holders - 1 ELSE holders
    /\ waiting' = waiting
    /\ chain' = IF IsUp /\ res.tag = "nil" THEN [tag |-> "upNil", v |-> 0]
                ELSE IF IsUp /\ res.tag = "err" /\ fail \in {"run", "clean"}
                     THEN [tag |-> "upFail", v |-> cur.version]
                     ELSE NoChain
    /\ pendingDirty' = IF op.kind \in {"up", "down"} /\ fail = "run"
                       THEN cur.version ELSE pendingDirty
    /\ op' = NoOp
    /\ cpc' = "idle"
    /\ cur' = NoRec
    /\ res' = NoRes
    /\ fail' = "none"
    /\ ppc' = "none"
    /\ pend' = NoRec
    /\ prod' = NoProd
    /\ ch' = <<>>
    /\ sent' = <<>>
    /\ spawned' = {}
    /\ buffered' = {}
    /\ ran' = <<>>
    /\ UNCHANGED <<isExtended, depth, backend, src, stopped>>

\* ------------------------------------------------------------------ Next
Next ==
    \/ \E v \in Versions : AddScript(v)
    \/ SetStop
    \/ Call
    \/ Up
    \/ Down
    \/ \E n \in (0 - MaxSteps)..MaxSteps : Steps(n)
    \/ \E v \in Versions : Force(v)
    \/ \E v \in Versions : DoMigration(v)
    \/ \E v \in Versions : UndoMigration(v)
    \/ queueUpFirst
    \/ queueUpLoop
    \/ queueUpNext
    \/ queueDownFirst
    \/ queueDownLoop
    \/ queueDownNext
    \/ queueUpSingleMigration
    \/ queueDownSingleMigration
    \/ queueSingleNext
    \/ Send
    \/ SendLast
    \/ \E v \in Versions : Buffer(v)
    \/ handleMarkDirty
    \/ handleRun
    \/ handleMarkClean
    \/ Receive
    \/ Return

Spec == Init /\ [][Next]_vars

\* migr.Buffer() of one record returns an error: its goroutine logs the error and ends.
\* The record's content never becomes complete.
BufferFails(v) ==
    /\ v \in spawned
    /\ spawned' = spawned \ {v}
    /\ UNCHANGED <<isExtended, depth, backend, src, stopped, lock, callers, op, consumer, producer,
                   ch, sent, buffered, ran, history>>

\* the steps of the program when reading script content from the source may fail
NextWithBufferFailure ==
    \/ Next
    \/ \E v \in Versions : BufferFails(v)

BufferFailSpec == Init /\ [][NextWithBufferFailure]_vars

\* The bulk producers called on any arguments: queueUpMigrations(appliedMigrs, limit,
\* ret) and queueDownMigrations(appliedMigrs, limit, ret) started with any source, any
\* descending applied list over it and any limit from -1 upwards, limit 0 included,
\* with the consumer receiving from ret.
QueueInit ==
    /\ isExtended \in BOOLEAN
    /\ depth = PrefetchMigrations
    /\ src \in SUBSET Versions
    /\ \E S \in SUBSET src :
        /\ ~isExtended => S = {}
        /\ rows = [v \in Versions |-> IF v \in S THEN "clean" ELSE "absent"]
        /\ added = SortAsc(S)
        /\ prod = [NoProd EXCEPT !.applied = SortDesc(S)]
    /\ ptr = SetVersion(NoVersion, FALSE)
    /\ stopped = FALSE
    /\ lock = TRUE
    /\ waiting = FALSE
    /\ holders = 1
    /\ \E kind \in {"up", "down"}, limit \in {Unlimited} \cup (0..MaxSteps) :
        /\ op = [NoOp EXCEPT !.kind = IF isExtended THEN kind
                                      ELSE IF kind = "up" THEN "upBasic" ELSE "downBasic",
                             !.limit = limit]
        /\ ppc = IF kind = "up" THEN "first" ELSE "dstart"
    /\ cpc = "recv"
    /\ cur = NoRec
    /\ res = NoRes
    /\ fail = "none"
    /\ pend = NoRec
    /\ ch = <<>>
    /\ sent = <<>>
    /\ spawned = {}
    /\ buffered = {}
    /\ ran = <<>>
    /\ chain = NoChain
    /\ pendingDirty = 0

QueueSpec == QueueInit /\ [][Next]_vars

\* --------------------------------------------------- one call, run fairly
\* One caller has invoked an operation on an idle orchestrator. The backend is in any
\* state earlier operations can leave it in: any rows (several may be dirty) for
\* versions of the source on an Extended backend, any pointer on a Basic one; the stop
\* flag may already be set; the channel is made with any capacity up to the bound,
\* 0 included.
CallInit ==
    /\ isExtended \in BOOLEAN
    /\ depth \in 0..PrefetchMigrations
    /\ src \in SUBSET Versions
    /\ IF isExtended
       THEN /\ rows \in [Versions -> {"absent", "clean", "dirty"}]
            /\ \A v \in Versions : rows[v] # "absent" => v \in src
            /\ ptr = SetVersion(NoVersion, FALSE)
       ELSE /\ rows = [v \in Versions |-> "absent"]
            /\ ptr \in [version : {NoVersion} \cup Versions, dirty : BOOLEAN]
    /\ added = SortAsc({v \in Versions : rows[v] # "absent"})
    /\ stopped \in BOOLEAN
    /\ lock = FALSE
    /\ waiting = TRUE
    /\ holders = 0
    /\ op = NoOp
    /\ cpc = "idle"
    /\ cur = NoRec
    /\ res = NoRes
    /\ fail = "none"
    /\ ppc = "none"
    /\ pend = NoRec
    /\ prod = NoProd
    /\ ch = <<>>
    /\ sent = <<>>
    /\ spawned = {}
    /\ buffered = {}
    /\ ran = <<>>
    /\ chain = NoChain
    /\ pendingDirty = 0

\* the steps of the producer goroutine
ProducerStep ==
    \/ queueUpFirst
    \/ queueUpLoop
    \/ queueUpNext
    \/ queueDownFirst
    \/ queueDownLoop
    \/ queueDownNext
    \/ queueUpSingleMigration
    \/ queueDownSingleMigration
    \/ queueSingleNext
    \/ Send
    \/ SendLast

\* the steps of the calling goroutine once the producer is started: the consumer loop,
\* the executor, and the return through unlockErr
ConsumerStep ==
    \/ Receive
    \/ handleMarkDirty
    \/ handleRun
    \/ handleMarkClean
    \/ Return

\* the waiting caller's operation starts and no other caller arrives; Steps(0), which
\* takes no lock, may be called at any idle moment
CallNext ==
    \/ SetStop
    \/ Up /\ ~waiting'
    \/ Down /\ ~waiting'
    \/ \E n \in (0 - MaxSteps)..MaxSteps : Steps(n) /\ (n # 0 => ~waiting')
    \/ \E v \in Versions : DoMigration(v) /\ ~waiting'
    \/ \E v \in Versions : UndoMigration(v) /\ ~waiting'
    \/ ProducerStep
    \/ \E v \in Versions : Buffer(v)
    \/ ConsumerStep

\* the scheduler runs each goroutine that can take a step: the producer, every
\* buffering task, and the caller's consumer loop
FairSpec ==
    /\ CallInit
    /\ [][CallNext]_vars
    /\ WF_vars(ProducerStep)
    /\ \A v \in Versions : WF_vars(Buffer(v))
    /\ WF_vars(ConsumerStep)


\* ------------------------------------------------------------ properties
Applied(r) == {v \in Versions : r[v] # "absent"}

Done == cpc = "done"

\* the versions of the applied list the bulk operation read when it started
StartSet == {prod.applied[k] : k \in 1..Len(prod.applied)}

\* C1: Idempotence of Up. An Up() that immediately follows an Up() that returned nil,
\* with no script added in between, runs no script, never changes a row and, unless
\* a driver or source call fails, returns NoChange.
C1_UpIdempotent ==
    /\ []((Done /\ IsUp /\ op.ctx = "upNil") =>
            /\ ran = <<>>
            /\ fail = "none" => res.tag = "NoChange")
    /\ [][(IsUp /\ op.ctx = "upNil") => rows' = rows /\ ran' = <<>>]_vars

C1_Witness ==
    /\ Done /\ IsUp /\ op.ctx = "upNil"
    /\ res.tag = "NoChange"
    /\ Cardinality(Applied(rows)) >= 2

\* C2: Out-of-order completeness. Up() from a clean applied set S, with no failure and
\* no cancellation, ends with every source version applied and clean, having run the
\* up scripts of exactly the source versions outside S, in ascending order; it
\* returns nil, or NoChange when S already held every source version.
C2_OutOfOrderComplete ==
    (Done /\ IsUp /\ fail = "none" /\ ~stopped /\ res.tag # "Dirty") =>
        /\ Applied(rows) = src
        /\ DirtyRows(rows) = {}
        /\ ran = SortAsc(src \ StartSet)
        /\ res.tag = IF src \subseteq StartSet THEN "NoChange" ELSE "nil"

C2_Witness ==
    /\ Done /\ IsUp /\ fail = "none" /\ ~stopped /\ res.tag = "nil"
    /\ \E lo \in Versions, hi \in StartSet : lo < hi /\ ran = <<lo>>
    /\ Applied(rows) = src


IsBulk == op.kind \in {"up", "down"}

\* C3: Dirty propagation. When the script of a record fails during Up, Down or Steps,
\* exactly the failed version's row is dirty when the operation returns, and from
\* then until Force is called every Up, Down and Steps call returns Dirty of that
\* version and runs no script.
C3_DirtyPropagation ==
    /\ (Done /\ IsBulk /\ fail = "run") => DirtyRows(rows) = {cur.version}
    /\ (Done /\ IsBulk /\ pendingDirty # 0 /\ fail # "query") =>
            /\ res = [tag |-> "Dirty", version |-> pendingDirty]
            /\ ran = <<>>

\* the rows a bulk Up leaves when its executor stopped at version k
RowsUpTo(k, kState) ==
    [v \in Versions |->
        IF v \in StartSet THEN "clean"
        ELSE IF v \in src /\ v < k THEN "clean"
        ELSE IF v = k THEN kState
        ELSE "absent"]

\* C4: First failure ends the operation. When the executor fails on a record of a bulk
\* Up after that record's mark-dirty step succeeded (in Run or in the mark-clean step),
\* the operation returns an error, the records enqueued before it are applied and
\* clean, the failed record's row is dirty, nothing was done for any later record,
\* and no row changes afterwards.
C4_FirstFailureEnds ==
    /\ []((Done /\ op.kind = "up" /\ fail \in {"run", "clean"}) =>
            /\ res.tag = "err"
            /\ rows = RowsUpTo(cur.version, "dirty")
            /\ ran = SortAsc({v \in src \ StartSet : v <= cur.version}))
    /\ [][Done => rows' = rows /\ (cpc' = "done" => ran' = ran)]_vars

C4_Witness ==
    /\ Done /\ op.kind = "up" /\ fail = "run"
    /\ Len(ran) = 2
    /\ \E v \in src : v > cur.version /\ rows[v] = "absent"

\* C4 as claimed: whatever executor step fails on a record of a bulk Up, that record's
\* row exists with dirty = true when the operation returns.
C4_AsClaimed ==
    (Done /\ op.kind = "up" /\ fail \in {"dirty", "run", "clean"}) =>
        /\ res.tag = "err"
        /\ rows = RowsUpTo(cur.version, "dirty")

\* C5: At most one row has dirty = true in every reachable state.
C5_AtMostOneDirty == Cardinality(DirtyRows(rows)) <= 1

\* C6: While a dirty marker exists, DoMigration(v) and UndoMigration(v) return a Dirty
\* error for every v (unless the driver query itself fails).
C6_SingleRefusesOnDirty ==
    [][\A v \in Versions :
        (/\ DoMigration(v) \/ UndoMigration(v)
         /\ isExtended
         /\ DirtyRows(rows) # {}
         /\ fail' # "query") => res'.tag = "Dirty"]_vars

\* C7: Force clears exactly one marker. A Force(v) step leaves v's row not dirty, leaves
\* every other row (and the presence of v's row) as it was, hands no script to Run,
\* and when no other version was dirty the backend is clean afterwards.
C7_ForceClearsOne ==
    [][\A v \in Versions :
        (Force(v) /\ isExtended) =>
            /\ rows'[v] # "dirty"
            /\ (rows'[v] = "absent") = (rows[v] = "absent")
            /\ \A w \in Versions \ {v} : rows'[w] = rows[w]
            /\ ran' = ran
            /\ DirtyRows(rows) \subseteq {v} => DirtyRows(rows') = {}]_vars

C7_Witness ==
    /\ chain.tag = "forced"
    /\ rows[chain.v] = "clean"
    /\ DirtyRows(rows) = {}
    /\ cpc = "idle"

\* C8: Recovery after Force. When a failed Up left v dirty and Force(v) followed, the
\* next Up(), with no failure and no cancellation, does not return Dirty, returns nil
\* when a source version above v is still unapplied, and ends with every source
\* version applied and no dirty marker.
C8_RecoveryAfterForce ==
    (Done /\ IsUp /\ op.ctx = "forced" /\ fail = "none" /\ ~stopped) =>
        /\ res.tag # "Dirty"
        /\ (\E w \in src \ StartSet : w > op.ctxv) => res.tag = "nil"
        /\ Applied(rows) = src
        /\ DirtyRows(rows) = {}

C8_Witness ==
    /\ Done /\ IsUp /\ op.ctx = "forced" /\ fail = "none" /\ ~stopped
    /\ res.tag = "nil"
    /\ Applied(rows) = src
    /\ \E w \in src : w > op.ctxv

\* C9: Corrected script takes effect after Force. When a failed Up left v dirty and
\* Force(v) followed, the next Up(), with no failure and no cancellation, hands v's up
\* script to Run.
C9_CorrectedScriptRuns ==
    (Done /\ IsUp /\ op.ctx = "forced" /\ fail = "none" /\ ~stopped) =>
        op.ctxv \in Range(ran)

\* C10: Single-version short-circuit. DoMigration(v) with v's row present, and
\* UndoMigration(v) with v's row absent, return NoChange (unless the driver query
\* fails) without starting a producer or changing a row; such an operation hands
\* nothing to Run and its return releases the lock.
C10_ShortCircuit ==
    /\ [][\A v \in Versions :
            (/\ isExtended
             /\ fail' # "query"
             /\ \/ DoMigration(v) /\ rows[v] # "absent"
                \/ UndoMigration(v) /\ rows[v] = "absent") =>
                /\ res'.tag = "NoChange"
                /\ cpc' = "done"
                /\ ppc' = "none"
                /\ rows' = rows]_vars
    /\ []((op.kind \in {"do", "undo"} /\ res.tag = "NoChange") =>
            ran = <<>> /\ ppc = "none" /\ ch = <<>>)
    /\ [][(Done /\ cpc' = "idle") => ~lock' /\ rows' = rows]_vars

C10_Witness ==
    /\ Done /\ op.kind = "do" /\ res.tag = "NoChange"
    /\ rows[op.version] = "clean"
    /\ lock

\* C11: Capability error on Basic backends. On a backend that is not Extended,
\* DoMigration(v) and UndoMigration(v) return an error at once for every v: no producer
\* is started, nothing is handed to Run, the pointer and the rows stay as they are, and
\* the lock taken at entry is released by the return.
C11_CapabilityError ==
    /\ [][\A v \in Versions :
            ((DoMigration(v) \/ UndoMigration(v)) /\ ~isExtended) =>
                /\ res'.tag = "err"
                /\ cpc' = "done"
                /\ ppc' = "none"
                /\ lock']_vars
    /\ []((op.kind \in {"do", "undo"} /\ ~isExtended) =>
            Done /\ ppc = "none" /\ ch = <<>> /\ ran = <<>>)
    /\ [][(op.kind \in {"do", "undo"} /\ ~isExtended) =>
            /\ ptr' = ptr /\ rows' = rows /\ ran' = ran
            /\ cpc' # cpc => cpc' = "idle" /\ ~lock']_vars

C11_Witness ==
    /\ Done /\ op.kind = "undo" /\ ~isExtended
    /\ res.tag = "err" /\ fail = "capability"
    /\ lock /\ src # {}

\* C12: DoMigration applies exactly one version regardless of order. DoMigration(v) for
\* a version without a row starts its producer whatever rows other versions have; with
\* v in the source, no failure and no cancellation it returns nil having handed exactly
\* v's up script to Run, v's row is clean, and no other version's row changed.
C12_DoAppliesOne ==
    /\ [][\A v \in Versions :
            (DoMigration(v) /\ isExtended /\ rows[v] = "absent" /\ fail' # "query") =>
                cpc' = "recv" /\ ppc' = "usingle"]_vars
    /\ []((Done /\ op.kind = "do" /\ fail = "none" /\ ~stopped /\ res.tag # "NoChange") =>
            /\ res.tag = "nil"
            /\ ran = <<op.version>>
            /\ rows[op.version] = "clean")
    /\ [][op.kind = "do" => \A w \in Versions \ {op.version} : rows'[w] = rows[w]]_vars

C12_Witness ==
    /\ Done /\ op.kind = "do" /\ fail = "none" /\ ~stopped /\ res.tag = "nil"
    /\ ran = <<op.version>>
    /\ \E lo, hi \in src :
        /\ lo < op.version /\ op.version < hi
        /\ rows[lo] = "absent" /\ rows[hi] = "clean"

\* C13: UndoMigration reverts exactly one version. UndoMigration(v) for a version with a
\* row, not necessarily the highest, starts its producer; with no failure and no
\* cancellation it returns nil having handed exactly v's down script to Run, v's row
\* is gone, and the row and dirty flag of every other version are unchanged.
C13_UndoRevertsOne ==
    /\ [][\A v \in Versions :
            (UndoMigration(v) /\ isExtended /\ rows[v] # "absent" /\ fail' # "query") =>
                cpc' = "recv" /\ ppc' = "dsingle"]_vars
    /\ []((Done /\ op.kind = "undo" /\ fail = "none" /\ ~stopped /\ res.tag # "NoChange") =>
            /\ res.tag = "nil"
            /\ ran = <<op.version>>
            /\ rows[op.version] = "absent")
    /\ [][op.kind = "undo" => \A w \in Versions \ {op.version} : rows'[w] = rows[w]]_vars

C13_Witness ==
    /\ Done /\ op.kind = "undo" /\ fail = "none" /\ ~stopped /\ res.tag = "nil"
    /\ rows[op.version] = "absent"
    /\ \E lo, hi \in src :
        /\ lo < op.version /\ op.version < hi
        /\ rows[lo] = "clean" /\ rows[hi] = "clean"

\* C14: Lock release. The return of every operation that took the lock releases it:
\* the lock is held until then, it is released by nothing else, and it is never held
\* while no operation is in progress.
C14_LockRelease ==
    /\ [](cpc = "idle" => ~lock)
    /\ [][(Done /\ cpc' = "idle" /\ op.kind # "steps0") => lock /\ ~lock']_vars
    /\ [][(lock /\ ~lock') => Done /\ cpc' = "idle"]_vars

C14_Witness ==
    /\ cpc = "idle" /\ ~lock
    /\ pendingDirty # 0
    /\ rows[pendingDirty] = "dirty"

\* C15: Mutual exclusion. With several callers, at most one is between lock() and
\* unlockErr at any time, the lock is held exactly while one is, and a record is being
\* executed only by that one caller.
C15_MutualExclusion ==
    /\ holders <= 1
    /\ lock <=> holders = 1
    /\ cpc \in {"dirty", "run", "clean"} => holders = 1

C15_Witness ==
    /\ holders = 1 /\ waiting
    /\ cpc = "clean"
    /\ rows[cur.version] = "dirty"

\* C16: No goroutine leaks. When the consumer has stopped, the producer is not left in
\* a channel send that can never complete.
C16_NoGoroutineLeak ==
    (Done /\ ppc \in {"send", "sendlast"}) => Room

IsDown == op.kind = "down" /\ op.limit = Unlimited

\* C17: Down order invariant. During Down() and Steps(n < 0) the versions handed to Run
\* so far are the highest versions of the applied list read at the start, highest
\* first: strictly descending, none skipped.
C17_DownOrder ==
    op.kind = "down" =>
        /\ \A k \in 1..(Len(ran) - 1) : ran[k] > ran[k + 1]
        /\ ran = SubSeq(SortDesc(StartSet), 1, Len(ran))

C17_Witness ==
    /\ Done /\ op.kind = "down" /\ res.tag = "nil"
    /\ Len(ran) >= 2
    /\ Cardinality(StartSet) > Len(ran)

\* C18: Down rolls back in reverse order of application. While Down() executes a
\* record, that record's version is the one whose row was added last among the rows
\* that still exist.
C18_ReverseOfApplication ==
    (IsDown /\ cpc \in {"run", "clean"}) => cur.version = added[Len(added)]

\* C19: Down reverts everything. Down() from a clean applied set S, with no failure and
\* no cancellation, hands the down script of every version of S to Run exactly once and
\* ends with no row at all; it returns nil, or NoChange when S was empty. In
\* particular a Down() that follows a successful Up() ends with the empty set.
C19_DownRevertsAll ==
    (Done /\ IsDown /\ fail = "none" /\ ~stopped /\ res.tag # "Dirty") =>
        /\ Applied(rows) = {}
        /\ Len(ran) = Cardinality(StartSet)
        /\ Range(ran) = StartSet
        /\ res.tag = IF StartSet = {} THEN "NoChange" ELSE "nil"

C19_Witness ==
    /\ Done /\ IsDown /\ fail = "none" /\ ~stopped /\ res.tag = "nil"
    /\ op.ctx = "upNil"
    /\ Len(ran) >= 2
    /\ Applied(rows) = {}

\* the first n elements of s, or all of s when it is shorter
FirstN(s, n) == SubSeq(s, 1, Min({n, Len(s)}))

\* C20: Steps(n) for n > 0. The producer never counts more than n records; with no
\* failure and no cancellation the operation hands exactly the min(n, number of
\* unapplied source versions) lowest unapplied source versions to Run, in ascending
\* order, leaves exactly those and the versions applied before with a clean row, and
\* returns nil, or NoChange when nothing was unapplied.
C20_StepsUp ==
    /\ (op.kind = "up" /\ op.limit # Unlimited) =>
            prod.cnt <= op.limit /\ Len(ran) <= op.limit
    /\ (Done /\ op.kind = "up" /\ op.limit # Unlimited /\ fail = "none" /\ ~stopped
            /\ res.tag # "Dirty") =>
            /\ ran = FirstN(SortAsc(src \ StartSet), op.limit)
            /\ rows = [v \in Versions |->
                        IF v \in StartSet \cup Range(ran) THEN "clean" ELSE "absent"]
            /\ res.tag = IF src \subseteq StartSet THEN "NoChange" ELSE "nil"

C20_Witness ==
    /\ Done /\ op.kind = "up" /\ op.limit = 1 /\ fail = "none" /\ ~stopped
    /\ res.tag = "nil"
    /\ \E lo \in StartSet, hi \in src :
        /\ lo < ran[1] /\ ran[1] < hi
        /\ ran = <<ran[1]>>
        /\ rows[hi] = "absent"

\* C21: Steps(-n) for n > 0. The producer never counts more than n records; with no
\* failure and no cancellation the operation hands exactly the min(n, number of
\* applied versions) highest applied versions to Run, highest first, removes exactly
\* their rows, leaves every other row as it was, and returns nil, or NoChange when
\* nothing was applied.
C21_StepsDown ==
    /\ (op.kind = "down" /\ op.limit # Unlimited) =>
            prod.cnt <= op.limit /\ Len(ran) <= op.limit
    /\ (Done /\ op.kind = "down" /\ op.limit # Unlimited /\ fail = "none" /\ ~stopped
            /\ res.tag # "Dirty") =>
            /\ ran = FirstN(SortDesc(StartSet), op.limit)
            /\ rows = [v \in Versions |->
                        IF v \in StartSet \ Range(ran) THEN "clean" ELSE "absent"]
            /\ res.tag = IF StartSet = {} THEN "NoChange" ELSE "nil"

C21_Witness ==
    /\ Done /\ op.kind = "down" /\ op.limit = 1 /\ fail = "none" /\ ~stopped
    /\ res.tag = "nil"
    /\ Cardinality(StartSet) = 3
    /\ ran = <<Max(StartSet)>>
    /\ Cardinality(Applied(rows)) = 2

\* C22: Cancellation never interrupts an executing record. Whether or not the stop flag
\* is set, a record leaves the run step only by its script being run and leaves the
\* mark-clean step only by that step being done or failing; and when an operation ends
\* with no driver or script step failed, no record it started has a dirty marker: a
\* bulk operation ends with no dirty row at all, a Basic one with a clean pointer.
C22_NoInterrupt ==
    /\ [][(cpc = "run" /\ cpc' # "run") =>
            /\ ran' = IF cur.version \in src THEN Append(ran, cur.version) ELSE ran
            /\ cpc' = "clean" \/ (cpc' = "done" /\ fail' = "run")]_vars
    /\ [][(cpc = "clean" /\ cpc' # "clean") =>
            \/ /\ cpc' = "recv"
               /\ IF isExtended THEN rows'[cur.version] # "dirty" ELSE ~ptr'.dirty
            \/ cpc' = "done" /\ fail' = "clean"]_vars
    /\ []((Done /\ fail \in {"none", "source"} /\ res.tag # "Dirty") =>
            /\ cur = NoRec
            /\ \A v \in Range(ran) : rows[v] # "dirty"
            /\ op.kind \in {"up", "down"} => \A v \in Versions : rows[v] # "dirty"
            /\ op.kind \in {"upBasic", "downBasic"} => ~ptr.dirty)

C22_Witness ==
    /\ Done /\ op.kind = "up" /\ fail = "none" /\ res.tag = "nil"
    /\ stopped /\ prod.saw
    /\ Len(ran) >= 1
    /\ \A v \in Range(ran) : rows[v] = "clean"
    /\ \E v \in src : rows[v] = "absent"

\* C23: Crash safety of the dirty marker. From the moment the mark-dirty step returned
\* until the mark-clean or remove step completed, the persisted marker of the record
\* is dirty: the row of its version on an Extended backend, the pointer (target
\* version, dirty) on a Basic one. A script is run only in such a state, and the state
\* after the script is such a state too.
C23_CrashSafety ==
    /\ [](cpc \in {"run", "clean"} =>
            IF isExtended THEN rows[cur.version] = "dirty"
            ELSE ptr = [version |-> cur.target, dirty |-> TRUE])
    /\ [][ran' # ran /\ ran' # <<>> =>
            IF isExtended
            THEN rows[cur.version] = "dirty" /\ rows'[cur.version] = "dirty"
            ELSE ptr.dirty /\ ptr'.dirty]_vars

C23_Witness ==
    /\ cpc = "clean" /\ isExtended /\ cur.up /\ op.kind = "up"
    /\ rows[cur.version] = "dirty"
    /\ Len(ran) = 2
    /\ stopped

\* the versions of the Migration Records among the values of q, in order
RecordVersions(q) ==
    LET recs == SelectSeq(q, LAMBDA x : x.type = "migr")
    IN  [k \in 1..Len(recs) |-> recs[k].version]

\* the versions of the records the consumer has handed to the executor so far
Handed ==
    IF cur.type = "migr" /\ (ran = <<>> \/ ran[Len(ran)] # cur.version)
    THEN Append(ran, cur.version) ELSE ran

C25_NoRecordAfterStop ==
    /\ [](prod.saw => ppc \in {"sendlast", "closed"} /\ pend.type # "migr")
    /\ [][(ppc # "send" /\ ppc' = "send") => ~stopped]_vars
    /\ [][(prod.saw /\ cpc' # "idle") =>
            prod'.saw /\ RecordVersions(sent') = RecordVersions(sent)]_vars

C25_Witness ==
    /\ prod.saw /\ ppc = "closed" /\ op.kind = "up" /\ op.limit = Unlimited
    /\ Len(RecordVersions(sent)) = 1
    /\ \E v \in src : v > sent[1].version /\ v \notin StartSet

\* C26: NoChange terminal value and cancellation. When a bulk Up or bulk Down producer
\* has closed the channel without having sent a record or an error, NoChange is the one
\* value it sent if it stopped for a reason other than cancellation, and it sent
\* nothing if it stopped because it found the stop flag set.
C26_NoChangeUnlessCancelled ==
    (/\ op.kind \in {"up", "down"}
     /\ ppc = "closed"
     /\ \A k \in 1..Len(sent) : sent[k].type = "NoChange") =>
        sent = IF prod.saw THEN <<>> ELSE <<ErrNoChange>>

\* the arguments make the bulk producer's work empty from the start
Degenerate ==
    \/ op.kind \in {"down", "downBasic"} /\ (prod.applied = <<>> \/ op.limit = 0)
    \/ op.kind \in {"up", "upBasic"} /\ (src = {} \/ op.limit = 0)

\* C27: Degenerate inputs yield only NoChange. A bulk-Down producer given an empty
\* applied list or limit 0, and a bulk-Up producer given an empty source or limit 0,
\* whose source call (First) did not fail, build no record, start no content read and
\* send exactly one value, NoChange, before closing the channel; the operation
\* returns NoChange with nothing run and no row changed.
C27_DegenerateInputs ==
    (/\ Degenerate
     /\ ppc \in {"loop", "send", "sent", "sendlast", "closed"}
     /\ pend # ErrSource /\ \A k \in 1..Len(sent) : sent[k] # ErrSource) =>
        /\ ppc \in {"loop", "sendlast", "closed"}
        /\ pend.type # "migr" /\ spawned = {} /\ buffered = {} /\ ran = <<>>
        /\ prod.cnt = 0
        /\ ppc = "loop" => sent = <<>>
        /\ ppc = "sendlast" => sent = <<>> /\ pend = ErrNoChange
        /\ ppc = "closed" => sent = <<ErrNoChange>>
        /\ Done => /\ res.tag = "NoChange"
                   /\ IF isExtended
                      THEN /\ Applied(rows) = StartSet
                           /\ \A v \in Versions : rows[v] # "dirty"
                      ELSE /\ ~ptr.dirty
                           /\ StartSet = IF ptr.version = NoVersion
                                         THEN {} ELSE {ptr.version}

C27_Witness ==
    /\ Done /\ op.kind = "up" /\ op.limit = 0
    /\ \E v \in src : v \notin StartSet
    /\ ppc = "closed" /\ sent = <<ErrNoChange>>
    /\ res.tag = "NoChange"

\* C28: Channel protocol. Among the values a producer has sent in an operation at most
\* one is not a Migration Record (an error or NoChange), it is the last one sent and
\* the producer has closed the channel after it; NoChange is never sent in an
\* operation in which a record was sent; once the channel is closed it stays closed
\* and nothing more is sent on it; a producer that has returned has closed it.
C28_ChannelProtocol ==
    /\ [](/\ \A k \in 1..Len(sent) : sent[k].type \in {"migr", "NoChange", "err"}
          /\ \A k \in 1..(Len(sent) - 1) : sent[k].type = "migr"
          /\ (sent # <<>> /\ sent[Len(sent)].type # "migr") => ppc = "closed"
          /\ (\E k \in 1..Len(sent) : sent[k].type = "NoChange") => Len(sent) = 1
          /\ ppc = "closed" => pend = NoRec
          /\ (cpc # "idle" /\ ppc = "none") => (sent = <<>> /\ ch = <<>>))
    /\ [][(ppc = "closed" /\ cpc' # "idle") => (ppc' = "closed" /\ sent' = sent)]_vars
    /\ [][ppc' = "closed" => ppc \in {"closed", "sent", "sendlast", "loop", "usingle",
                                      "dsingle"}]_vars

C28_Witness ==
    /\ ppc = "closed" /\ cpc = "done" /\ fail = "source"
    /\ Len(sent) = 3
    /\ sent[1].type = "migr" /\ sent[2].type = "migr" /\ sent[3] = ErrSource

\* C29: Pipeline error after partial progress. When a bulk Up returns the source's
\* error, that error is the last value the producer sent, every record sent before it
\* was run, in the order sent, each of them has a clean row, the rows applied before
\* are untouched and no row is dirty; while the operation lasts nothing is sent after
\* the error.
C29_ErrorAfterProgress ==
    /\ (op.kind = "up" /\ \E k \in 1..Len(sent) : sent[k] = ErrSource) =>
            /\ sent[Len(sent)] = ErrSource
            /\ pend = NoRec
    /\ (Done /\ op.kind = "up" /\ fail = "source") =>
            /\ res.tag = "err"
            /\ sent = [k \in 1..Len(sent) |->
                        IF k = Len(sent) THEN ErrSource
                        ELSE newMigration(ran[k], ran[k], TRUE)]
            /\ Len(sent) = Len(ran) + 1
            /\ rows = [v \in Versions |->
                        IF v \in StartSet \cup Range(ran) THEN "clean" ELSE "absent"]

C29_Witness ==
    /\ Done /\ op.kind = "up" /\ op.limit = Unlimited /\ fail = "source"
    /\ Len(ran) = 2
    /\ rows[ran[1]] = "clean" /\ rows[ran[2]] = "clean"
    /\ \E v \in src : v > ran[2] /\ rows[v] = "absent"

\* the executor is working on a Down record on an Extended backend
DownRecord == isExtended /\ cur.type = "migr" /\ ~cur.up

\* C30: Executor on an Extended backend, Down record. The steps come in the order
\* UpdateMigrationDirtyFlag(v, true), Run, RemoveMigration(v): the first sets v's row
\* dirty and nothing else, Run happens only after it and changes no row, the removal
\* happens only after a Run that succeeded and takes out v's row and nothing else;
\* when Run fails no row is removed and v's row is still there and dirty.
C30_DownExecutor ==
    /\ [][(DownRecord /\ cpc = "dirty" /\ cpc' # "dirty") =>
            /\ ran' = ran
            /\ \/ cpc' = "run" /\ rows' = [rows EXCEPT ![cur.version] = "dirty"]
               \/ cpc' = "done" /\ fail' = "dirty" /\ rows' = rows]_vars
    /\ [][(DownRecord /\ cpc = "run" /\ cpc' # "run") =>
            /\ rows[cur.version] = "dirty"
            /\ ran' = Append(ran, cur.version)
            /\ rows' = rows
            /\ cpc' = "clean" \/ (cpc' = "done" /\ fail' = "run")]_vars
    /\ [][(DownRecord /\ cpc = "clean" /\ cpc' # "clean") =>
            /\ ran' = ran
            /\ \/ cpc' = "recv" /\ rows' = [rows EXCEPT ![cur.version] = "absent"]
               \/ cpc' = "done" /\ fail' = "clean" /\ rows' = rows]_vars
    /\ [][(cpc' = "run" => cpc \in {"dirty", "run"})
            /\ (cpc' = "clean" => cpc \in {"run", "clean"})]_vars
    /\ []((DownRecord /\ Done /\ fail = "run") => rows[cur.version] = "dirty")

C30_Witness ==
    /\ DownRecord /\ Done /\ fail = "run" /\ op.kind = "down"
    /\ Len(ran) = 2 /\ cur.version = ran[2]
    /\ rows[ran[1]] = "absent" /\ rows[ran[2]] = "dirty"
    /\ \E v \in Versions : rows[v] = "clean"

\* the persisted marker of the record the executor holds is dirty
MarkerDirty ==
    IF isExtended THEN rows[cur.version] = "dirty"
    ELSE ptr = [version |-> cur.target, dirty |-> TRUE]

\* C31: Executor failure handling without rollback. A failing step ends the record at
\* once with an error that names the record's version, and writes nothing: after a
\* failed mark-dirty step the script is not run and no mark-clean step follows; after
\* a failed script or a failed mark-clean step the marker written in step 1 is still
\* there, dirty, and the script that ran stays run; nothing changes the backend
\* between the failure and the return.
C31_NoRollback ==
    /\ [][(cpc \in {"dirty", "run", "clean"} /\ cpc' = "done") =>
            /\ fail' = cpc
            /\ res' = [tag |-> "err", version |-> cur.version]
            /\ cur' = cur
            /\ rows' = rows /\ ptr' = ptr
            /\ ran' = IF cpc = "run" THEN Append(ran, cur.version) ELSE ran
            /\ cpc = "run" => cur.version \in src]_vars
    /\ [][(cpc = "done" /\ fail \in {"dirty", "run", "clean"}) =>
            /\ rows' = rows /\ ptr' = ptr
            /\ cpc' \in {"done", "idle"}
            /\ cpc' = "done" => ran' = ran]_vars
    /\ []((Done /\ fail = "dirty") => \A k \in 1..Len(ran) : ran[k] # cur.version)
    /\ []((Done /\ fail \in {"run", "clean"}) =>
            /\ MarkerDirty
            /\ cur.version \in src => (ran # <<>> /\ ran[Len(ran)] = cur.version))

C31_Witness ==
    /\ Done /\ fail = "clean" /\ isExtended /\ cur.up /\ op.kind = "up"
    /\ Len(ran) = 2 /\ ran[2] = cur.version
    /\ rows[ran[1]] = "clean" /\ rows[ran[2]] = "dirty"

\* the executor is working on a record on a Basic backend
BasicRecord == ~isExtended /\ cur.type = "migr"

\* C32: Executor on a Basic backend. The steps come in the order SetVersion(target,
\* true), Run when the record has content, SetVersion(target, false): the first leaves
\* the pointer at (target, dirty), Run does not move it, the last leaves it at (target,
\* clean); the target is the record's own version for Up and an older version or -1
\* for Down; when Run fails the pointer stays (target, dirty). No row is ever written.
C32_BasicExecutor ==
    /\ [](BasicRecord => (IF cur.up THEN cur.target = cur.version
                                    ELSE cur.target < cur.version))
    /\ [][(BasicRecord /\ cpc = "dirty" /\ cpc' # "dirty") =>
            /\ ran' = ran /\ rows' = rows
            /\ \/ cpc' = "run" /\ ptr' = [version |-> cur.target, dirty |-> TRUE]
               \/ cpc' = "done" /\ fail' = "dirty" /\ ptr' = ptr]_vars
    /\ [][(BasicRecord /\ cpc = "run" /\ cpc' # "run") =>
            /\ ptr = [version |-> cur.target, dirty |-> TRUE]
            /\ ptr' = ptr /\ rows' = rows
            /\ ran' = IF cur.version \in src THEN Append(ran, cur.version) ELSE ran
            /\ \/ cpc' = "clean"
               \/ cpc' = "done" /\ fail' = "run" /\ cur.version \in src]_vars
    /\ [][(BasicRecord /\ cpc = "clean" /\ cpc' # "clean") =>
            /\ ran' = ran /\ rows' = rows
            /\ \/ cpc' = "recv" /\ ptr' = [version |-> cur.target, dirty |-> FALSE]
               \/ cpc' = "done" /\ fail' = "clean" /\ ptr' = ptr]_vars
    /\ []((BasicRecord /\ Done /\ fail = "run") =>
            ptr = [version |-> cur.target, dirty |-> TRUE])

C32_Witness ==
    /\ BasicRecord /\ Done /\ fail = "run" /\ ~cur.up
    /\ ran = <<cur.version>>
    /\ ptr = [version |-> NoVersion, dirty |-> TRUE]

\* DoMigration was called for a version the source does not have
DoOfMissingVersion == isExtended /\ op.kind = "do" /\ op.version \notin src

\* C33: Sequence error for DoMigration. DoMigration(v) on an Extended backend for a
\* version v that the source does not have builds and sends no record, starts no
\* content read, never reaches the executor, writes nothing to the backend, returns
\* an error, and releases the lock when it returns.
C33_SequenceError ==
    /\ [](DoOfMissingVersion =>
            /\ rows[op.version] = "absent"
            /\ pend.type # "migr"
            /\ \A k \in 1..Len(sent) : sent[k] = ErrSource
            /\ spawned = {} /\ buffered = {} /\ ran = <<>>
            /\ cur = NoRec /\ cpc \in {"recv", "done"}
            /\ Done => res.tag = "err")
    /\ [][DoOfMissingVersion =>
            /\ rows' = rows /\ added' = added /\ ptr' = ptr
            /\ cpc' = "idle" => ~lock']_vars

C33_Witness ==
    /\ DoOfMissingVersion /\ Done /\ fail = "source"
    /\ sent = <<ErrSource>> /\ ppc = "closed"
    /\ \E v \in src : v > op.version /\ rows[v] = "clean"

\* the records that were sent and that the consumer has not yet taken from the channel
Waiting == SelectSeq(ch, LAMBDA x : x.type = "migr")

\* C34: Prefetch bound. The channel never holds more values than the prefetch depth,
\* so at most that many records are enqueued and not yet handed to the executor; a
\* content read has been started only for records that were sent; and a value is sent
\* only in a state where the channel has room (or, without a buffer, where the
\* consumer is receiving): otherwise the producer stays in its send.
C34_PrefetchBound ==
    /\ [](/\ Len(ch) <= PrefetchMigrations
          /\ Len(Waiting) <= PrefetchMigrations
          /\ \A v \in spawned \cup buffered :
                \E k \in 1..Len(sent) : sent[k].type = "migr" /\ sent[k].version = v)
    /\ [][(sent' # sent /\ sent' # <<>>) =>
            \/ Len(ch) < PrefetchMigrations
            \/ PrefetchMigrations = 0 /\ ch = <<>> /\ cpc = "recv"]_vars

C34_Witness ==
    /\ Len(Waiting) = PrefetchMigrations
    /\ ppc = "send" /\ pend.type = "migr"
    /\ cpc = "run" /\ cur.version \notin buffered
    /\ Len(sent) = PrefetchMigrations + 1

BufferFailed(v) ==
    /\ \E k \in 1..Len(sent) : sent[k].type = "migr" /\ sent[k].version = v
    /\ v \notin spawned \cup buffered
    /\ ~(ppc = "sent" /\ pend.version = v)

\* C36: Buffering failures are surfaced. When the content read of a record has failed,
\* the producer does not close the channel without having sent an error as its last
\* value, and the operation does not end with a result other than an error.
C36_BufferFailureSurfaced ==
    \A v \in Versions :
        BufferFailed(v) =>
            /\ ppc = "closed" => (sent # <<>> /\ sent[Len(sent)].type = "err")
            /\ Done => res.tag = "err"

\* C37: A nil result means the work was done. When DoMigration(v) ends with nil, v has
\* a clean row; when UndoMigration(v) ends with nil, v has no row; whenever the stop
\* flag was set.
C37_NilMeansDone ==
    /\ (Done /\ op.kind = "do" /\ res.tag = "nil") => rows[op.version] = "clean"
    /\ (Done /\ op.kind = "undo" /\ res.tag = "nil") => rows[op.version] = "absent"

\* the Down record queueDownMigrations builds for the i-th element of list
DownRecordOf(list, i) ==
    [type |-> "migr", version |-> list[i],
     target |-> IF i = Len(list) THEN NoVersion ELSE list[i + 1], up |-> FALSE]

\* C39: Bulk-Down target version. The i-th record a bulk Down sends, and the record it
\* holds for sending, is the Down record of the i-th element of the applied list it
\* was given: its target is the next element of the list, the next older applied
\* version, and -1 only for the list's last element.
C39_DownTarget ==
    op.kind \in {"down", "downBasic"} =>
        /\ \A k \in 1..Len(sent) :
                sent[k].type = "migr" =>
                    /\ k <= Len(prod.applied)
                    /\ sent[k] = DownRecordOf(prod.applied, k)
                    /\ sent[k].target = NoVersion <=> k = Len(prod.applied)
        /\ (ppc = "send" /\ pend.type = "migr") =>
                /\ Len(sent) < Len(prod.applied)
                /\ pend = DownRecordOf(prod.applied, Len(sent) + 1)

C39_Witness ==
    /\ op.kind = "down" /\ Len(sent) >= 2
    /\ sent[1].type = "migr" /\ sent[2].type = "migr"
    /\ sent[1].target = sent[2].version
    /\ sent[1].target # SourcePrev(src, sent[1].version)
    /\ sent[2].target = NoVersion

====
